---- MODULE Spec2Model ----
(***************************************************************************)
(* State-machine model of the chat-core crate of p2p_chat_rust:            *)
(* P2pNetwork (crates/chat-core/src/network.rs) and the command/event      *)
(* bridge run_chat_network (crates/chat-core/src/lib.rs).                  *)
(*                                                                         *)
(* Every node owns a registry (connected_peers), an event channel          *)
(* (event_sender) and a command channel.  The libp2p swarm is the          *)
(* environment: it produces SwarmEvents, which handle_swarm_event and      *)
(* handle_behaviour_event consume one at a time.                           *)
(***************************************************************************)
EXTENDS Integers, Sequences, FiniteSets, TLC

\* ---------------------------------------------------- bounds
MaxEvents == 4      \* events kept on one event channel
MaxConns == 2       \* simultaneous connections a swarm holds to one peer
MaxClock == 1       \* seconds the system clock advances
MaxMsgs == 2        \* ChatMessages constructed (uuids drawn) in one run
MaxCmds == 2        \* commands waiting in one command channel
MaxRounds == 2      \* progress results of one bootstrap query
MaxLoads == 2       \* times one process slot constructs its network
MaxArrivals == 2    \* frames carrying one payload that reach one node

\* ---------------------------------------------------- domains
Nodes == {"A", "B", "C"}            \* PeerIds (PeerId::to_string)
Local == "A"                        \* the node whose loop the Spec drives
Texts == {"hi"}
NoPeer == ""

VARIABLES
    pc,               \* per node: "init" | "failed" | "new" | "chat" | "run"
                      \* | "done"
    connected_peers,  \* per node: the registry, a map PeerId -> PeerInfo
    events,           \* per node: every NetworkEvent sent on event_sender
    event_cause,      \* per node, per event: the peer and payload behind it
    commands,         \* per node: the command channel's queue
    chan_open,        \* per node: the ChatClient still holds command_sender
    conns,            \* per node: the swarm's open connections per peer
    now,              \* SystemTime::now() in seconds
    next_uuid,        \* the next value uuid::Uuid::new_v4() returns
    routing,          \* per node: kademlia's routing table, <<peer, addr>>
    bootstrap_nodes,  \* per node: config.dht_config.bootstrap_nodes
    reachable,        \* peers that answer a dial
    boot,             \* per node: the bootstrap query and the calls made
    subscriptions,    \* per node: the topics gossipsub is subscribed to
    peer_topics,      \* per node: the topics it knows each peer subscribes to
    duplicate_cache,  \* per node: gossipsub's set of seen MessageIds
    publish_calls,    \* per node: every publish_message call and its outcome
    net,              \* gossip frames in flight between nodes
    arrivals,         \* per node, per MessageId: the frames that have arrived
    key_file,         \* per node: the file at config.key_file
    key_loads,        \* per node: what each load_or_create_keypair returned
    key_writes        \* per node: the fs::write calls that wrote the key file

vars == <<pc, connected_peers, events, event_cause, commands, chan_open,
          conns, now, next_uuid, routing, bootstrap_nodes, reachable, boot,
          subscriptions, peer_topics, duplicate_cache, publish_calls, net,
          arrivals,
          key_file, key_loads, key_writes>>

\* the state of the identity store
keyvars == <<key_file, key_loads, key_writes>>

\* ---------------------------------------------------- types
\* types.rs PeerInfo
PeerInfo(p, addresses, last_seen) ==
    [peer_id |-> p, addresses |-> addresses, last_seen |-> last_seen]

\* MessageType as run_chat_network constructs it
Broadcast == [tag |-> "Broadcast"]
Direct(target) == [tag |-> "Direct", target_peer_id |-> target]

\* ChatMessage as run_chat_network constructs it
ChatMessage(id, sender, content, timestamp, message_type) ==
    [id |-> id, sender |-> sender, content |-> content,
     timestamp |-> timestamp, message_type |-> message_type]

\* NetworkEvent
PeerDiscovered(info) == [type |-> "PeerDiscovered", info |-> info]
PeerConnected(p) == [type |-> "PeerConnected", peer_id |-> p]
PeerDisconnected(p) == [type |-> "PeerDisconnected", peer_id |-> p]
MessageReceived(m) == [type |-> "MessageReceived", message |-> m]
DhtBootstrapped == [type |-> "DhtBootstrapped"]
PeerListUpdated(peers) == [type |-> "PeerListUpdated", peers |-> peers]

\* ChatCommand
SendBroadcastCmd(text) == [type |-> "SendBroadcast", message |-> text]
SendDirectCmd(p, text) ==
    [type |-> "SendDirect", peer_id |-> p, message |-> text]
ListPeersCmd == [type |-> "ListPeers"]
GetPeerListCmd == [type |-> "GetPeerList"]

\* the display name a node was started with
Username(n) == "user-" \o n


\* ---------------------------------------------------- wire format
\* serde's externally tagged form of MessageType
encode_message_type(t) ==
    IF t.tag = "Broadcast" THEN <<"Broadcast">>
    ELSE <<"Direct", <<"target_peer_id", t.target_peer_id>>>>

\* serde_json::to_vec(message): the fields in declaration order
serialize(m) ==
    << <<"id", m.id>>, <<"sender", m.sender>>, <<"content", m.content>>,
       <<"timestamp", m.timestamp>>,
       <<"message_type", encode_message_type(m.message_type)>> >>

is_message_type(v) ==
    \/ v = <<"Broadcast">>
    \/ Len(v) = 2 /\ v[1] = "Direct" /\ v[2][1] = "target_peer_id"

decode_message_type(v) ==
    IF v = <<"Broadcast">> THEN Broadcast ELSE Direct(v[2][2])

\* serde_json::from_slice::<ChatMessage>(data).is_ok()
deserializes(data) ==
    /\ Len(data) = 5
    /\ data[1][1] = "id"
    /\ data[2][1] = "sender"
    /\ data[3][1] = "content"
    /\ data[4][1] = "timestamp"
    /\ data[5][1] = "message_type"
    /\ is_message_type(data[5][2])

\* serde_json::from_slice::<ChatMessage>(data), when it is Ok
deserialize(data) ==
    ChatMessage(data[1][2], data[2][2], data[3][2], data[4][2],
                decode_message_type(data[5][2]))

\* gossipsub::Message
GossipMessage(source, sequence_number, topic, data) ==
    [source |-> source, sequence_number |-> sequence_number,
     topic |-> topic, data |-> data]

\* message_id_fn hashing the sender and the content of a ChatMessage, so that
\* messages that differ in their id alone get one MessageId
message_id_by_content(message) ==
    IF deserializes(message.data)
    THEN [hash |-> <<message.data[2], message.data[3]>>]
    ELSE [hash |-> message.data]

\* message_id_fn: DefaultHasher over message.data and nothing else
message_id_fn(message) == [hash |-> message.data]

\* the topics of subscribe_to_chat and publish_message
ChatTopic == "chat"
DirectTopic(p) == "direct-" \o p

\* publish_message sending direct messages to the broadcast topic as well
publish_topic_chat(m) == ChatTopic

\* the topic publish_message chooses for a message
publish_topic(m) ==
    IF m.message_type.tag = "Broadcast" THEN ChatTopic
    ELSE DirectTopic(m.message_type.target_peer_id)

\* ---------------------------------------------------- helpers
Looping(n) == pc[n] \in {"chat", "run"}
CanEmit(n) == Len(events[n]) < MaxEvents
Cause(p, data) == [peer |-> p, data |-> data]
NoCause == Cause(NoPeer, <<>>)

\* event_sender.send(ev)
Emit(n, ev, cause) ==
    /\ events' = [events EXCEPT ![n] = Append(@, ev)]
    /\ event_cause' = [event_cause EXCEPT ![n] = Append(@, cause)]

\* HashMap::insert and HashMap::remove
MapInsert(m, k, v) == [x \in DOMAIN m \cup {k} |-> IF x = k THEN v ELSE m[x]]
MapRemove(m, k) == [x \in DOMAIN m \ {k} |-> m[x]]

\* the orders in which a HashMap's values() may come out
Orderings(m) ==
    {s \in [1..Cardinality(DOMAIN m) -> DOMAIN m] :
        \A i, j \in DOMAIN s : i # j => s[i] # s[j]}

\* get_peer_list leaving out the peers that have no address yet
get_peer_list_identified(n) ==
    LET m == connected_peers[n]
        known == [q \in {x \in DOMAIN m : m[x].addresses # <<>>} |-> m[q]]
    IN  {[i \in DOMAIN s |-> known[s[i]]] : s \in Orderings(known)}

\* get_peer_list: connected_peers.values().cloned().collect(), in any order
get_peer_list(n) ==
    {[i \in DOMAIN s |-> connected_peers[n][s[i]]] :
        s \in Orderings(connected_peers[n])}

\* P2pNetwork::new: the bootstrap addresses that reach kademlia.add_address
new_routing(cfg) ==
    {<<cfg[i].p2p, cfg[i].addr>> :
        i \in {j \in DOMAIN cfg : cfg[j].p2p # NoPeer}}


\* ---------------------------------------------------- identity store
\* libp2p::identity::Keypair: the PeerId is derived from its public half
Keypair(public) == [public |-> public]
PeerIdFrom(keypair) == keypair.public
KeypairOf(n) == Keypair(n)

\* the keypairs Keypair::generate_ed25519() may return
Keypairs == {Keypair(p) : p \in Nodes}

\* the file at a path: absent, or present with its bytes
NoFile == [exists |-> FALSE, bytes |-> <<>>]
File(bytes) == [exists |-> TRUE, bytes |-> bytes]

\* Keypair::to_protobuf_encoding and from_protobuf_encoding
to_protobuf_encoding(keypair) == <<"ed25519", keypair.public>>
decodes(bytes) == Len(bytes) = 2 /\ bytes[1] = "ed25519"
from_protobuf_encoding(bytes) == Keypair(bytes[2])

\* bytes that are no protobuf encoding of a keypair
UndecodableBytes == <<"junk">>

\* Result<Keypair>
Ok(keypair) == [ok |-> TRUE, keypair |-> keypair]
Err == [ok |-> FALSE]

\* load_or_create_keypair generating a new keypair over a file it cannot
\* decode
load_or_create_keypair_regenerates(file, generated, write_ok) ==
    IF file.exists /\ decodes(file.bytes)
    THEN [result |-> Ok(from_protobuf_encoding(file.bytes)),
          file |-> file, wrote |-> FALSE]
    ELSE IF write_ok
         THEN [result |-> Ok(generated),
               file |-> File(to_protobuf_encoding(generated)), wrote |-> TRUE]
         ELSE [result |-> Err, file |-> file, wrote |-> FALSE]

\* load_or_create_keypair(key_file): the result, the file it leaves at the
\* path and whether fs::write wrote it; generated is what generate_ed25519()
\* returns if called, write_ok whether fs::write succeeds if called
load_or_create_keypair(file, generated, write_ok) ==
    IF file.exists
    THEN IF decodes(file.bytes)
         THEN [result |-> Ok(from_protobuf_encoding(file.bytes)),
               file |-> file, wrote |-> FALSE]
         ELSE [result |-> Err, file |-> file, wrote |-> FALSE]
    ELSE IF write_ok
         THEN [result |-> Ok(generated),
               file |-> File(to_protobuf_encoding(generated)), wrote |-> TRUE]
         ELSE [result |-> Err, file |-> file, wrote |-> FALSE]

\* P2pNetwork::new up to `load_or_create_keypair(&config.key_file)?`: an Err
\* ends the construction, an Ok lets it go on with that keypair
New(n, generated, write_ok) ==
    LET loaded == load_or_create_keypair(key_file[n], generated, write_ok)
    IN  /\ pc[n] = "init"
        /\ Len(key_loads[n]) < MaxLoads
        /\ key_file' = [key_file EXCEPT ![n] = loaded.file]
        /\ key_loads' = [key_loads EXCEPT ![n] = Append(@, loaded.result)]
        /\ key_writes' = [key_writes EXCEPT
                            ![n] = IF loaded.wrote THEN @ + 1 ELSE @]
        /\ pc' = [pc EXCEPT ![n] = IF loaded.result.ok THEN "new"
                                   ELSE "failed"]
        /\ UNCHANGED <<connected_peers, events, event_cause, commands,
                       chan_open, conns, now, next_uuid, routing,
                       bootstrap_nodes, reachable, boot, subscriptions,
                       peer_topics, duplicate_cache, publish_calls, net,
                       arrivals>>

\* the process ends and is started again with the same configuration
ProcessRestart(n) ==
    /\ pc[n] \in {"new", "failed"}
    /\ pc' = [pc EXCEPT ![n] = "init"]
    /\ UNCHANGED <<keyvars, connected_peers, events, event_cause, commands,
                   chan_open, conns, now, next_uuid, routing,
                   bootstrap_nodes, reachable, boot, subscriptions,
                   peer_topics, duplicate_cache, publish_calls, net,
                   arrivals>>

\* ---------------------------------------------------- start-up
\* run_chat_network up to its loop: subscribe_to_chat, start_peer_discovery
StartChatNetwork(n) ==
    /\ pc[n] = "new"
    /\ subscriptions' = [subscriptions EXCEPT
                            ![n] = {ChatTopic, DirectTopic(n)}]
    /\ pc' = [pc EXCEPT ![n] = "chat"]
    /\ UNCHANGED <<keyvars, connected_peers, events, event_cause, commands, chan_open,
                   conns, now, next_uuid, routing, bootstrap_nodes, reachable,
                   boot, peer_topics, duplicate_cache, publish_calls, net,
                   arrivals>>

\* P2pNetwork::run up to its loop: kademlia.bootstrap(), which starts a query
\* from the peers of the routing table unless the table is empty (then the
\* error is logged)
StartRun(n) ==
    /\ pc[n] = "new"
    /\ boot' = [boot EXCEPT ![n] = [calls |-> @.calls + 1,
                                    active |-> routing[n] # {},
                                    seeds |-> {e[1] : e \in routing[n]},
                                    rounds |-> 0,
                                    failed_at |-> @.failed_at]]
    /\ pc' = [pc EXCEPT ![n] = "run"]
    /\ UNCHANGED <<keyvars, connected_peers, events, event_cause, commands, chan_open,
                   conns, now, next_uuid, routing, bootstrap_nodes, reachable,
                   subscriptions, peer_topics, duplicate_cache, publish_calls,
                   net, arrivals>>

\* ---------------------------------------------------- handle_swarm_event
\* ConnectionEstablished storing the entry under the swarm's own peer id
ConnectionEstablishedLocalKey(n, p) ==
    /\ Looping(n)
    /\ p # n
    /\ conns[n][p] < MaxConns
    /\ CanEmit(n)
    /\ conns' = [conns EXCEPT ![n][p] = @ + 1]
    /\ connected_peers' =
         IF p \in DOMAIN connected_peers[n] THEN connected_peers
         ELSE [connected_peers EXCEPT
                 ![n] = MapInsert(@, n, PeerInfo(p, <<>>, now))]
    /\ Emit(n, PeerConnected(p), Cause(p, <<>>))
    /\ UNCHANGED <<keyvars, pc, commands, chan_open, now, next_uuid, routing,
                   bootstrap_nodes, reachable, boot, subscriptions,
                   peer_topics, duplicate_cache, publish_calls, net,
                   arrivals>>

\* ConnectionEstablished without the send of its else branch: a peer that
\* is not in the registry yet is inserted silently
ConnectionEstablishedSilent(n, p) ==
    /\ Looping(n)
    /\ p # n
    /\ conns[n][p] < MaxConns
    /\ CanEmit(n)
    /\ conns' = [conns EXCEPT ![n][p] = @ + 1]
    /\ IF p \in DOMAIN connected_peers[n]
       THEN /\ connected_peers' = connected_peers
            /\ Emit(n, PeerConnected(p), Cause(p, <<>>))
       ELSE /\ connected_peers' = [connected_peers EXCEPT
                    ![n] = MapInsert(@, p, PeerInfo(p, <<>>, now))]
            /\ UNCHANGED <<events, event_cause>>
    /\ UNCHANGED <<keyvars, pc, commands, chan_open, now, next_uuid, routing,
                   bootstrap_nodes, reachable, boot, subscriptions,
                   peer_topics, duplicate_cache, publish_calls, net, arrivals>>

\* ConnectionEstablished storing its basic PeerInfo whether or not the peer
\* has an entry
ConnectionEstablishedResetsEntry(n, p) ==
    /\ Looping(n)
    /\ p # n
    /\ conns[n][p] < MaxConns
    /\ CanEmit(n)
    /\ conns' = [conns EXCEPT ![n][p] = @ + 1]
    /\ connected_peers' = [connected_peers EXCEPT
                             ![n] = MapInsert(@, p, PeerInfo(p, <<>>, now))]
    /\ Emit(n, PeerConnected(p), Cause(p, <<>>))
    /\ UNCHANGED <<keyvars, pc, commands, chan_open, now, next_uuid, routing,
                   bootstrap_nodes, reachable, boot, subscriptions,
                   peer_topics, duplicate_cache, publish_calls, net,
                   arrivals>>

\* SwarmEvent::ConnectionEstablished { peer_id, .. }
ConnectionEstablished(n, p) ==
    /\ Looping(n)
    /\ p # n
    /\ conns[n][p] < MaxConns
    /\ CanEmit(n)
    /\ conns' = [conns EXCEPT ![n][p] = @ + 1]
    /\ connected_peers' =
         IF p \in DOMAIN connected_peers[n] THEN connected_peers
         ELSE [connected_peers EXCEPT
                 ![n] = MapInsert(@, p, PeerInfo(p, <<>>, now))]
    /\ Emit(n, PeerConnected(p), Cause(p, <<>>))
    /\ UNCHANGED <<keyvars, pc, commands, chan_open, now, next_uuid, routing,
                   bootstrap_nodes, reachable, boot, subscriptions,
                   peer_topics, duplicate_cache, publish_calls, net,
                   arrivals>>

\* ConnectionClosed without connected_peers.remove
ConnectionClosedKeepsPeer(n, p) ==
    /\ Looping(n)
    /\ conns[n][p] > 0
    /\ CanEmit(n)
    /\ conns' = [conns EXCEPT ![n][p] = @ - 1]
    /\ peer_topics' = [peer_topics EXCEPT
                         ![n][p] = IF conns[n][p] = 1 THEN {} ELSE @]
    /\ Emit(n, PeerDisconnected(p), Cause(p, <<>>))
    /\ UNCHANGED <<keyvars, pc, connected_peers, commands, chan_open, now, next_uuid,
                   routing, bootstrap_nodes, reachable, boot, subscriptions,
                   duplicate_cache, publish_calls, net, arrivals>>

\* SwarmEvent::ConnectionClosed { peer_id, .. }: one per closed connection;
\* gossipsub forgets the peer when its last connection goes
ConnectionClosed(n, p) ==
    /\ Looping(n)
    /\ conns[n][p] > 0
    /\ CanEmit(n)
    /\ conns' = [conns EXCEPT ![n][p] = @ - 1]
    /\ connected_peers' = [connected_peers EXCEPT ![n] = MapRemove(@, p)]
    /\ peer_topics' = [peer_topics EXCEPT
                         ![n][p] = IF conns[n][p] = 1 THEN {} ELSE @]
    /\ Emit(n, PeerDisconnected(p), Cause(p, <<>>))
    /\ UNCHANGED <<keyvars, pc, commands, chan_open, now, next_uuid, routing,
                   bootstrap_nodes, reachable, boot, subscriptions,
                   duplicate_cache, publish_calls, net, arrivals>>

\* SwarmEvent::NewListenAddr: logged
NewListenAddr(n) == Looping(n) /\ UNCHANGED vars

\* SwarmEvent::IncomingConnection: logged
IncomingConnection(n) == Looping(n) /\ UNCHANGED vars

\* the OutgoingConnectionError arm taking the peer it could not dial out of
\* the registry
OutgoingConnectionErrorForgetsPeer(n, p) ==
    /\ Looping(n)
    /\ p # n
    /\ connected_peers' = [connected_peers EXCEPT ![n] = MapRemove(@, p)]
    /\ UNCHANGED <<keyvars, pc, events, event_cause, commands, chan_open,
                   conns, now, next_uuid, routing, bootstrap_nodes, reachable,
                   boot, subscriptions, peer_topics, duplicate_cache,
                   publish_calls, net, arrivals>>

\* the OutgoingConnectionError arm returning the error out of the loop
OutgoingConnectionErrorFatal(n, p) ==
    /\ Looping(n)
    /\ p # n
    /\ pc' = [pc EXCEPT ![n] = "done"]
    /\ UNCHANGED <<keyvars, connected_peers, events, event_cause, commands, chan_open,
                   conns, now, next_uuid, routing, bootstrap_nodes, reachable,
                   boot, subscriptions, peer_topics, duplicate_cache,
                   publish_calls, net, arrivals>>

\* SwarmEvent::OutgoingConnectionError { peer_id, error, .. }: logged
OutgoingConnectionError(n, p) == Looping(n) /\ p # n /\ UNCHANGED vars

\* SwarmEvent::IncomingConnectionError: logged
IncomingConnectionError(n) == Looping(n) /\ UNCHANGED vars

\* ---------------------------------------------------- handle_behaviour_event
\* kademlia reports Bootstrap(Ok(..)): one result per step of the query, the
\* last of which ends it; a step succeeds only if a peer the query started
\* from answers
KademliaBootstrapOk(n, last) ==
    /\ Looping(n)
    /\ boot[n].active
    /\ boot[n].rounds < MaxRounds
    /\ boot[n].seeds \cap reachable # {}
    /\ CanEmit(n)
    /\ boot' = [boot EXCEPT ![n].rounds = @ + 1, ![n].active = ~last]
    /\ Emit(n, DhtBootstrapped, NoCause)
    /\ UNCHANGED <<keyvars, pc, connected_peers, commands, chan_open, conns, now,
                   next_uuid, routing, bootstrap_nodes, reachable,
                   subscriptions, peer_topics, duplicate_cache, publish_calls,
                   net, arrivals>>

\* the Bootstrap(Err(..)) arm calling kademlia.bootstrap() again
KademliaBootstrapErrRetry(n) ==
    /\ Looping(n)
    /\ boot[n].active
    /\ boot' = [boot EXCEPT ![n].calls = @ + 1, ![n].rounds = 0,
                             ![n].failed_at = Len(events[n])]
    /\ UNCHANGED <<keyvars, pc, connected_peers, events, event_cause, commands,
                   chan_open, conns, now, next_uuid, routing, bootstrap_nodes,
                   reachable, subscriptions, peer_topics, duplicate_cache,
                   publish_calls, net, arrivals>>

\* kademlia reports Bootstrap(Err(..)): logged, the query is over; failed_at
\* remembers how many events the node had emitted by then
KademliaBootstrapErr(n) ==
    /\ Looping(n)
    /\ boot[n].active
    /\ boot' = [boot EXCEPT ![n].active = FALSE,
                             ![n].failed_at = Len(events[n])]
    /\ UNCHANGED <<keyvars, pc, connected_peers, events, event_cause, commands,
                   chan_open, conns, now, next_uuid, routing, bootstrap_nodes,
                   reachable, subscriptions, peer_topics, duplicate_cache,
                   publish_calls, net, arrivals>>

\* KademliaEvent::RoutingUpdated: logged
KademliaRoutingUpdated(n, p) == Looping(n) /\ p # n /\ UNCHANGED vars

\* the Identify arm without its kademlia.add_address loop
IdentifyReceivedKeepsRouting(n, p, protocol_version, listen_addrs) ==
    /\ Looping(n)
    /\ conns[n][p] > 0
    /\ CanEmit(n)
    /\ LET peer_info == PeerInfo(p, listen_addrs, now) IN
         /\ connected_peers' = [connected_peers EXCEPT
                                  ![n] = MapInsert(@, p, peer_info)]
         /\ Emit(n, PeerDiscovered(peer_info), Cause(p, <<>>))
    /\ UNCHANGED <<keyvars, pc, commands, chan_open, conns, now, next_uuid,
                   routing, bootstrap_nodes, reachable, boot, subscriptions,
                   peer_topics, duplicate_cache, publish_calls, net,
                   arrivals>>

\* identify::Event::Received { peer_id, info }
IdentifyReceived(n, p, protocol_version, listen_addrs) ==
    /\ Looping(n)
    /\ conns[n][p] > 0
    /\ CanEmit(n)
    /\ routing' = [routing EXCEPT
                     ![n] = @ \cup {<<p, listen_addrs[i]>> :
                                       i \in DOMAIN listen_addrs}]
    /\ LET peer_info == PeerInfo(p, listen_addrs, now) IN
         /\ connected_peers' = [connected_peers EXCEPT
                                  ![n] = MapInsert(@, p, peer_info)]
         /\ Emit(n, PeerDiscovered(peer_info), Cause(p, <<>>))
    /\ UNCHANGED <<keyvars, pc, commands, chan_open, conns, now, next_uuid,
                   bootstrap_nodes, reachable, boot, subscriptions,
                   peer_topics, duplicate_cache, publish_calls, net,
                   arrivals>>

\* ping::Event { peer, result, .. }: logged, whether Ok or Err
Ping(n, p) == Looping(n) /\ conns[n][p] > 0 /\ UNCHANGED vars


\* ---------------------------------------------------- gossipsub
Frame(to, from, message) == [to |-> to, from |-> from, message |-> message]

\* the peers gossipsub knows to be subscribed to a topic
TopicPeers(n, topic) ==
    {q \in Nodes \ {n} : conns[n][q] > 0 /\ topic \in peer_topics[n][q]}

\* a peer's subscription list arrives over an open connection
\* (gossipsub::Event::Subscribed falls to the `_ => {}` arm)
GossipsubSubscribed(n, p) ==
    /\ Looping(n)
    /\ conns[n][p] > 0
    /\ peer_topics[n][p] # subscriptions[p]
    /\ peer_topics' = [peer_topics EXCEPT ![n][p] = subscriptions[p]]
    /\ UNCHANGED <<keyvars, pc, connected_peers, events, event_cause, commands,
                   chan_open, conns, now, next_uuid, routing, bootstrap_nodes,
                   reachable, boot, subscriptions, duplicate_cache,
                   publish_calls, net, arrivals>>

\* how many frames carrying a message id have reached a node
Arrived(n, id) == IF id \in DOMAIN arrivals[n] THEN arrivals[n][id] ELSE 0

\* the Gossipsub arm sending an empty message for bytes it cannot decode
OnGossipsubMessageLenient(n, p, message) ==
    IF deserializes(message.data)
    THEN Emit(n, MessageReceived(deserialize(message.data)),
              Cause(p, message.data))
    ELSE Emit(n, MessageReceived(ChatMessage(0, "", "", 0, Broadcast)),
              Cause(p, message.data))

\* the Gossipsub arm logging the message without sending the event
OnGossipsubMessageLogged(n, p, message) == UNCHANGED <<events, event_cause>>

\* the Gossipsub(gossipsub::Event::Message { message, .. }) arm
OnGossipsubMessage(n, p, message) ==
    IF deserializes(message.data)
    THEN Emit(n, MessageReceived(deserialize(message.data)),
              Cause(p, message.data))
    ELSE UNCHANGED <<events, event_cause>>

\* a frame from peer p reaches gossipsub: a message id already in the cache is
\* dropped, a topic the node is not subscribed to is not surfaced, anything else
\* becomes gossipsub::Event::Message and is forwarded to mesh peers
GossipsubReceive(n, p, message, in_flight) ==
    LET id == message_id_fn(message)
        surfaced == /\ id \notin duplicate_cache[n]
                    /\ message.topic \in subscriptions[n]
        candidates == IF surfaced
                      THEN TopicPeers(n, message.topic) \ {p, message.source}
                      ELSE {}
    IN  /\ Looping(n)
        /\ conns[n][p] > 0
        /\ (surfaced /\ deserializes(message.data)) => CanEmit(n)
        /\ Arrived(n, id) < MaxArrivals
        /\ arrivals' = [arrivals EXCEPT
                          ![n] = MapInsert(@, id, Arrived(n, id) + 1)]
        /\ duplicate_cache' = [duplicate_cache EXCEPT ![n] = @ \cup {id}]
        /\ \E mesh \in SUBSET candidates :
             net' = in_flight \cup {Frame(q, n, message) : q \in mesh}
        /\ IF surfaced
           THEN OnGossipsubMessage(n, p, message)
           ELSE UNCHANGED <<events, event_cause>>
        /\ UNCHANGED <<keyvars, pc, connected_peers, commands, chan_open, conns, now,
                       next_uuid, routing, bootstrap_nodes, reachable, boot,
                       subscriptions, peer_topics, publish_calls>>

\* gossipsub's duplicate cache is a time cache: ConfigBuilder::default() leaves
\* duplicate_cache_time at its default, and a message id is forgotten once
\* that time has passed since the id was inserted
DuplicateCacheExpire(n) ==
    /\ Looping(n)
    /\ \E id \in duplicate_cache[n] :
         duplicate_cache' = [duplicate_cache EXCEPT ![n] = @ \ {id}]
    /\ UNCHANGED <<keyvars, pc, connected_peers, events, event_cause, commands,
                   chan_open, conns, now, next_uuid, routing, bootstrap_nodes,
                   reachable, boot, subscriptions, peer_topics, publish_calls,
                   net, arrivals>>

\* payloads a remote peer may put on the wire: two broadcasts that differ in
\* their id alone, a direct message, and bytes that are no ChatMessage
BroadcastPayloads ==
    {serialize(ChatMessage(100, "bob", "hi", 0, Broadcast)),
     serialize(ChatMessage(101, "bob", "hi", 0, Broadcast))}

\* bytes that serde_json does not accept as a ChatMessage
MalformedPayload == << <<"garbage", 0>> >>

RemotePayloads(n) ==
    BroadcastPayloads
      \cup {serialize(ChatMessage(102, "bob", "hi", 0, Direct(n))),
            MalformedPayload}

\* a frame sent by a remote peer p, whoever published the message first
GossipsubFromRemote(n, p, source, sequence_number, topic, data) ==
    /\ p # n
    /\ source # n
    /\ GossipsubReceive(n, p, GossipMessage(source, sequence_number, topic, data), net)

\* a frame sent by another node of the model
GossipsubDeliver(n, f) ==
    /\ f \in net
    /\ f.to = n
    /\ GossipsubReceive(n, f.from, f.message, net \ {f})

\* gossipsub.publish(topic, data): Err(Duplicate) for a message id already
\* seen, Err(InsufficientPeers) with no known subscriber, else one frame to
\* every known subscriber (flood publish)
publish_ok(n, topic, data) ==
    /\ message_id_fn(GossipMessage(n, Len(publish_calls[n]), topic, data))
         \notin duplicate_cache[n]
    /\ TopicPeers(n, topic) # {}

gossipsub_publish(n, chat_message, topic, data) ==
    LET message == GossipMessage(n, Len(publish_calls[n]), topic, data)
        ok == publish_ok(n, topic, data)
    IN  /\ publish_calls' = [publish_calls EXCEPT
              ![n] = Append(@, [message |-> chat_message, topic |-> topic,
                               data |-> data, ok |-> ok])]
        /\ duplicate_cache' =
             IF ok THEN [duplicate_cache EXCEPT ![n] = @ \cup {message_id_fn(message)}]
             ELSE duplicate_cache
        /\ net' = IF ok
                  THEN net \cup {Frame(q, n, message) : q \in TopicPeers(n, topic)}
                  ELSE net

\* P2pNetwork::publish_message
publish_message(n, message) ==
    gossipsub_publish(n, message, publish_topic(message), serialize(message))

\* ---------------------------------------------------- commands
\* ChatClient::send_broadcast, send_direct, list_peers (and the GetPeerList
\* variant of the public ChatCommand enum)
Commands ==
    {SendBroadcastCmd(t) : t \in Texts}
      \cup {SendDirectCmd(p, t) : p \in Nodes, t \in Texts}
      \cup {ListPeersCmd, GetPeerListCmd}

IsSendCmd(cmd) == cmd.type \in {"SendBroadcast", "SendDirect"}

\* the send commands waiting in the command channels
SendsQueued ==
    Cardinality({e \in Nodes \X (1..MaxCmds) :
                   /\ e[2] <= Len(commands[e[1]])
                   /\ IsSendCmd(commands[e[1]][e[2]])})

ClientSend(n, cmd) ==
    /\ pc[n] \in {"new", "chat"}
    /\ chan_open[n]
    /\ Len(commands[n]) < MaxCmds
    /\ IsSendCmd(cmd) => next_uuid + SendsQueued < MaxMsgs
    /\ commands' = [commands EXCEPT ![n] = Append(@, cmd)]
    /\ UNCHANGED <<keyvars, pc, connected_peers, events, event_cause, chan_open, conns,
                   now, next_uuid, routing, bootstrap_nodes, reachable, boot,
                   subscriptions, peer_topics, duplicate_cache, publish_calls,
                   net, arrivals>>

\* the ChatClient is dropped: the command channel closes
ClientDrop(n) ==
    /\ pc[n] \in {"new", "chat"}
    /\ chan_open[n]
    /\ chan_open' = [chan_open EXCEPT ![n] = FALSE]
    /\ UNCHANGED <<keyvars, pc, connected_peers, events, event_cause, commands, conns,
                   now, next_uuid, routing, bootstrap_nodes, reachable, boot,
                   subscriptions, peer_topics, duplicate_cache, publish_calls,
                   net, arrivals>>

\* command_receiver.recv() handing out the oldest command while taking the
\* newest off the queue
ReceivesNewest(n, type) ==
    /\ pc[n] = "chat"
    /\ commands[n] # <<>>
    /\ Head(commands[n]).type = type
    /\ commands' = [commands EXCEPT ![n] = SubSeq(@, 1, Len(@) - 1)]

\* command_receiver.recv() yields Some(command)
Receives(n, type) ==
    /\ pc[n] = "chat"
    /\ commands[n] # <<>>
    /\ Head(commands[n]).type = type
    /\ commands' = [commands EXCEPT ![n] = Tail(@)]

\* the SendBroadcast arm putting the command back when the publish failed
SendBroadcastRequeues(n) ==
    LET message == ChatMessage(next_uuid, Username(n),
                               Head(commands[n]).message, now, Broadcast)
    IN  /\ pc[n] = "chat"
        /\ commands[n] # <<>>
        /\ Head(commands[n]).type = "SendBroadcast"
        /\ next_uuid < MaxMsgs
        /\ next_uuid' = next_uuid + 1
        /\ publish_message(n, message)
        /\ commands' = [commands EXCEPT
              ![n] = IF publish_ok(n, publish_topic(message),
                                   serialize(message))
                     THEN Tail(@) ELSE Append(Tail(@), Head(@))]
        /\ UNCHANGED <<keyvars, pc, connected_peers, events, event_cause, chan_open,
                       conns, now, routing, bootstrap_nodes, reachable, boot,
                       subscriptions, peer_topics, arrivals>>

\* Some(ChatCommand::SendBroadcast(content))
SendBroadcast(n) ==
    /\ Receives(n, "SendBroadcast")
    /\ next_uuid < MaxMsgs
    /\ next_uuid' = next_uuid + 1
    /\ publish_message(n, ChatMessage(next_uuid, Username(n),
                                      Head(commands[n]).message, now, Broadcast))
    /\ UNCHANGED <<keyvars, pc, connected_peers, events, event_cause, chan_open, conns,
                   now, routing, bootstrap_nodes, reachable, boot,
                   subscriptions, peer_topics, arrivals>>

\* the SendDirect arm constructing the message of the SendBroadcast arm
SendDirectAsBroadcast(n) ==
    /\ Receives(n, "SendDirect")
    /\ next_uuid < MaxMsgs
    /\ next_uuid' = next_uuid + 1
    /\ publish_message(n, ChatMessage(next_uuid, Username(n),
                                      Head(commands[n]).message, now,
                                      Broadcast))
    /\ UNCHANGED <<keyvars, pc, connected_peers, events, event_cause, chan_open, conns,
                   now, routing, bootstrap_nodes, reachable, boot,
                   subscriptions, peer_topics, arrivals>>

\* Some(ChatCommand::SendDirect { peer_id, message: content })
SendDirect(n) ==
    /\ Receives(n, "SendDirect")
    /\ next_uuid < MaxMsgs
    /\ next_uuid' = next_uuid + 1
    /\ publish_message(n, ChatMessage(next_uuid, Username(n),
                                      Head(commands[n]).message, now,
                                      Direct(Head(commands[n]).peer_id)))
    /\ UNCHANGED <<keyvars, pc, connected_peers, events, event_cause, chan_open, conns,
                   now, routing, bootstrap_nodes, reachable, boot,
                   subscriptions, peer_topics, arrivals>>

\* the body shared by the ListPeers and GetPeerList arms
EmitPeerList(n) ==
    /\ CanEmit(n)
    /\ \E peers \in get_peer_list(n) : Emit(n, PeerListUpdated(peers), NoCause)
    /\ UNCHANGED <<keyvars, pc, connected_peers, chan_open, conns, now, next_uuid,
                   routing, bootstrap_nodes, reachable, boot, subscriptions,
                   peer_topics, duplicate_cache, publish_calls, net,
                   arrivals>>

\* Some(ChatCommand::ListPeers)
ListPeers(n) == Receives(n, "ListPeers") /\ EmitPeerList(n)

\* Some(ChatCommand::GetPeerList)
GetPeerList(n) == Receives(n, "GetPeerList") /\ EmitPeerList(n)

\* None => break: the channel is closed and drained, run_chat_network returns
CommandChannelClosed(n) ==
    /\ pc[n] = "chat"
    /\ commands[n] = <<>>
    /\ ~chan_open[n]
    /\ pc' = [pc EXCEPT ![n] = "done"]
    /\ UNCHANGED <<keyvars, connected_peers, events, event_cause, commands, chan_open,
                   conns, now, next_uuid, routing, bootstrap_nodes, reachable,
                   boot, subscriptions, peer_topics, duplicate_cache,
                   publish_calls, net, arrivals>>

\* the system clock advances
Tick ==
    /\ now < MaxClock
    /\ now' = now + 1
    /\ UNCHANGED <<keyvars, pc, connected_peers, events, event_cause, commands,
                   chan_open, conns, next_uuid, routing, bootstrap_nodes,
                   reachable, boot, subscriptions, peer_topics,
                   duplicate_cache, publish_calls, net, arrivals>>

\* the system clock is set back: SystemTime is the wall clock, which is not
\* monotonic, and unwrap_or_default() turns a time before the epoch into 0
ClockSetBack ==
    /\ now > 0
    /\ now' \in 0..(now - 1)
    /\ UNCHANGED <<keyvars, pc, connected_peers, events, event_cause, commands,
                   chan_open, conns, next_uuid, routing, bootstrap_nodes,
                   reachable, boot, subscriptions, peer_topics,
                   duplicate_cache, publish_calls, net, arrivals>>


\* ---------------------------------------------------- specifications
\* config.dht_config.bootstrap_nodes: addresses with or without a /p2p suffix
BootstrapConfigs ==
    {<<>>,
     <<[addr |-> "a1", p2p |-> "B"]>>,
     <<[addr |-> "a1", p2p |-> "B"], [addr |-> "a2", p2p |-> NoPeer]>>}

AddrLists == {<<"a1">>, <<"a1", "a2">>}
\* identify::Config::new("/p2p-chat/1.0.0", ..)
LocalProtocolVersion == "/p2p-chat/1.0.0"
ProtocolVersions == {LocalProtocolVersion, "/other/0.1"}

\* the identity store after a construction that succeeded: the key file holds
\* the keypair the node's PeerId derives from
KeyLoaded ==
    /\ key_file = [n \in Nodes |-> File(to_protobuf_encoding(KeypairOf(n)))]
    /\ key_loads = [n \in Nodes |-> <<Ok(KeypairOf(n))>>]
    /\ key_writes = [n \in Nodes |-> 0]

\* the swarm, the behaviours and the channels as P2pNetwork::new and
\* start_chat_client create them
InitNetwork ==
    /\ commands = [n \in Nodes |-> <<>>]
    /\ chan_open = [n \in Nodes |-> TRUE]
    /\ now = 0
    /\ next_uuid = 0
    /\ routing = [n \in Nodes |-> new_routing(bootstrap_nodes[n])]
    /\ boot = [n \in Nodes |-> [calls |-> 0, active |-> FALSE, seeds |-> {},
                                rounds |-> 0, failed_at |-> -1]]
    /\ peer_topics = [n \in Nodes |-> [p \in Nodes |-> {}]]
    /\ duplicate_cache = [n \in Nodes |-> {}]
    /\ publish_calls = [n \in Nodes |-> <<>>]
    /\ net = {}
    /\ arrivals = [n \in Nodes |-> [x \in {} |-> 0]]

\* what every specification starts from: each network as P2pNetwork::new
\* leaves it
InitCommon ==
    /\ KeyLoaded
    /\ InitNetwork

\* no connection has been established yet
Unconnected ==
    /\ connected_peers = [n \in Nodes |-> [x \in {} |-> x]]
    /\ events = [n \in Nodes |-> <<>>]
    /\ event_cause = [n \in Nodes |-> <<>>]
    /\ conns = [n \in Nodes |-> [p \in Nodes |-> 0]]

\* one node is driven from its construction on; its peers are nodes already
\* in their loops, seen only through the swarm events they cause
Init ==
    /\ bootstrap_nodes = [n \in Nodes |-> <<>>]
    /\ reachable = {}
    /\ pc = [n \in Nodes |-> IF n = Local THEN "new" ELSE "chat"]
    /\ subscriptions = [n \in Nodes |->
                          IF n = Local THEN {} ELSE {ChatTopic, DirectTopic(n)}]
    /\ InitCommon
    /\ Unconnected

\* the swarm events about connections and the capability exchange
ConnectionStep(n, peers) ==
    \/ \E p \in peers : ConnectionEstablished(n, p)
    \/ \E p \in peers : ConnectionClosed(n, p)
    \/ \E p \in peers, v \in ProtocolVersions, a \in AddrLists :
         IdentifyReceived(n, p, v, a)

\* the swarm events that are only logged
LoggedStep(n, peers) ==
    \/ NewListenAddr(n)
    \/ IncomingConnection(n)
    \/ \E p \in peers \cup {NoPeer} : OutgoingConnectionError(n, p)
    \/ IncomingConnectionError(n)
    \/ \E p \in peers : KademliaRoutingUpdated(n, p)
    \/ \E p \in peers : Ping(n, p)

\* the results of a bootstrap query
BootstrapStep(n) ==
    \/ \E last \in BOOLEAN : KademliaBootstrapOk(n, last)
    \/ KademliaBootstrapErr(n)

\* the application's side of the command channel
ClientStep(n, cmds) ==
    \/ \E cmd \in cmds : ClientSend(n, cmd)
    \/ ClientDrop(n)

\* the swarm arm of the loop: every interleaving of connection, identify,
\* logged and gossip events about the node's peers
Next ==
    \/ StartChatNetwork(Local)
    \/ StartRun(Local)
    \/ ConnectionStep(Local, Nodes)
    \/ LoggedStep(Local, Nodes)
    \/ \E p \in Nodes, topic \in {ChatTopic, DirectTopic("B")},
          data \in BroadcastPayloads :
         GossipsubFromRemote(Local, p, p, 0, topic, data)

Spec == Init /\ [][Next]_vars

\* the registry under both arms of the loop: connection and identify events
\* interleaved with the peer-list commands of the application
RegistryNext ==
    \/ StartChatNetwork(Local)
    \/ ConnectionStep(Local, Nodes)
    \/ ClientStep(Local, {ListPeersCmd, GetPeerListCmd})
    \/ ListPeers(Local)
    \/ GetPeerList(Local)
    \/ CommandChannelClosed(Local)

RegistrySpec == Init /\ [][RegistryNext]_vars

\* the node in its chat loop, receiving every payload over every path: from
\* either peer, published by either peer, on a topic it is subscribed to or
\* not, more than once, at any distance in time
GossipNext ==
    \/ StartChatNetwork(Local)
    \/ \E p \in Nodes : ConnectionEstablished(Local, p)
    \/ \E p \in Nodes : ConnectionClosed(Local, p)
    \/ \E p, source \in Nodes \ {Local},
          topic \in {ChatTopic, DirectTopic("B")},
          data \in RemotePayloads(Local) :
         GossipsubFromRemote(Local, p, source, 0, topic, data)
    \/ DuplicateCacheExpire(Local)

GossipSpec == Init /\ [][GossipNext]_vars

\* the node is driven through P2pNetwork::run or run_chat_network with every
\* bootstrap configuration, against a bootstrap peer that answers or does not
BootInit ==
    /\ \E cfg \in BootstrapConfigs :
         bootstrap_nodes = [n \in Nodes |-> IF n = Local THEN cfg ELSE <<>>]
    /\ reachable \in SUBSET {"B"}
    /\ pc = [n \in Nodes |-> IF n = Local THEN "new" ELSE "chat"]
    /\ subscriptions = [n \in Nodes |->
                          IF n = Local THEN {} ELSE {ChatTopic, DirectTopic(n)}]
    /\ InitCommon
    /\ Unconnected

BootNext ==
    \/ StartChatNetwork(Local)
    \/ StartRun(Local)
    \/ BootstrapStep(Local)
    \/ ConnectionStep(Local, {"B"})
    \/ LoggedStep(Local, {"B"})
    \/ ClientStep(Local, {ListPeersCmd})
    \/ ListPeers(Local)
    \/ CommandChannelClosed(Local)
    \/ Tick

BootSpec == BootInit /\ [][BootNext]_vars


\* three nodes in their chat loops, each with one connection to either of the
\* others: every node has handled ConnectionEstablished for both peers, and
\* no subscription list has been exchanged yet
PeerOrder(n) == CHOOSE s \in [1..2 -> Nodes \ {n}] : s[1] # s[2]

NetInit ==
    /\ bootstrap_nodes = [n \in Nodes |-> <<>>]
    /\ reachable = Nodes
    /\ pc = [n \in Nodes |-> "chat"]
    /\ subscriptions = [n \in Nodes |-> {ChatTopic, DirectTopic(n)}]
    /\ conns = [n \in Nodes |-> [p \in Nodes |-> IF p = n THEN 0 ELSE 1]]
    /\ connected_peers =
         [n \in Nodes |-> [p \in Nodes \ {n} |-> PeerInfo(p, <<>>, 0)]]
    /\ events = [n \in Nodes |->
                   [i \in 1..2 |-> PeerConnected(PeerOrder(n)[i])]]
    /\ event_cause = [n \in Nodes |->
                        [i \in 1..2 |-> Cause(PeerOrder(n)[i], <<>>)]]
    /\ InitCommon

NetNext ==
    \/ \E n, p \in Nodes : GossipsubSubscribed(n, p)
    \/ \E cmd \in Commands \ {ListPeersCmd, GetPeerListCmd} :
         ClientSend(Local, cmd)
    \/ SendBroadcast(Local)
    \/ SendDirect(Local)
    \/ \E n \in Nodes, f \in net : GossipsubDeliver(n, f)

NetSpec == NetInit /\ [][NetNext]_vars

\* node A, configured with B's address as its bootstrap peer, starts its chat
\* loop while B is in its own; each side gets one connection to the other,
\* and nothing closes
LiveInit ==
    /\ bootstrap_nodes =
         [n \in Nodes |-> IF n = Local THEN <<[addr |-> "a1", p2p |-> "B"]>>
                          ELSE <<>>]
    /\ reachable = {"B"}
    /\ pc = [n \in Nodes |-> IF n = Local THEN "new" ELSE "chat"]
    /\ subscriptions = [n \in Nodes |->
                          IF n = Local THEN {} ELSE {ChatTopic, DirectTopic(n)}]
    /\ InitCommon
    /\ Unconnected

DialBootstrap == conns[Local]["B"] = 0 /\ ConnectionEstablished(Local, "B")
AcceptDial == conns["B"][Local] = 0 /\ ConnectionEstablished("B", Local)
IdentifyBootstrap ==
    \E v \in ProtocolVersions, a \in AddrLists :
        IdentifyReceived(Local, "B", v, a)
DeliverToBootstrap == \E f \in net : GossipsubDeliver("B", f)

LiveNext ==
    \/ StartChatNetwork(Local)
    \/ DialBootstrap
    \/ AcceptDial
    \/ IdentifyBootstrap
    \/ GossipsubSubscribed(Local, "B")
    \/ GossipsubSubscribed("B", Local)
    \/ ClientSend(Local, SendBroadcastCmd("hi"))
    \/ SendBroadcast(Local)
    \/ DeliverToBootstrap

\* the swarm delivers what is pending and select! serves both of its arms
LiveSpec ==
    /\ LiveInit
    /\ [][LiveNext]_vars
    /\ WF_vars(StartChatNetwork(Local))
    /\ WF_vars(DialBootstrap)
    /\ WF_vars(AcceptDial)
    /\ WF_vars(IdentifyBootstrap)
    /\ WF_vars(GossipsubSubscribed(Local, "B"))
    /\ WF_vars(GossipsubSubscribed("B", Local))
    /\ WF_vars(SendBroadcast(Local))
    /\ WF_vars(DeliverToBootstrap)

\* the registry while the wall clock moves: connection and identify events
\* about one peer, between readings of SystemTime::now() that differ
ClockNext ==
    \/ StartChatNetwork(Local)
    \/ ConnectionStep(Local, {"B"})
    \/ Tick
    \/ ClockSetBack

ClockSpec == Init /\ [][ClockNext]_vars

\* processes that construct their network again and again over key files
\* that are absent, hold a keypair or hold bytes that are no keypair
KeyInit ==
    /\ key_file \in [Nodes -> {NoFile, File(UndecodableBytes)}
                               \cup {File(to_protobuf_encoding(k)) :
                                       k \in Keypairs}]
    /\ key_loads = [n \in Nodes |-> <<>>]
    /\ key_writes = [n \in Nodes |-> 0]
    /\ bootstrap_nodes = [n \in Nodes |-> <<>>]
    /\ reachable = {}
    /\ pc = [n \in Nodes |-> "init"]
    /\ subscriptions = [n \in Nodes |-> {}]
    /\ InitNetwork
    /\ Unconnected

KeyNext ==
    \/ \E n \in Nodes, generated \in Keypairs, write_ok \in BOOLEAN :
         New(n, generated, write_ok)
    \/ \E n \in Nodes : ProcessRestart(n)

KeySpec == KeyInit /\ [][KeyNext]_vars

\* both loops with everything they handle about one peer: the four commands
\* of the application, sent one at a time, connection and identify events,
\* the swarm events that are only logged and the results of a bootstrap query
FrameNext ==
    \/ StartChatNetwork(Local)
    \/ StartRun(Local)
    \/ ConnectionStep(Local, {"B"})
    \/ GossipsubSubscribed(Local, "B")
    \/ LoggedStep(Local, {"B"})
    \/ BootstrapStep(Local)
    \/ \E cmd \in {SendBroadcastCmd("hi"), SendDirectCmd("B", "hi"),
                    ListPeersCmd, GetPeerListCmd} :
         commands[Local] = <<>> /\ ClientSend(Local, cmd)
    \/ SendBroadcast(Local)
    \/ SendDirect(Local)
    \/ ListPeers(Local)
    \/ GetPeerList(Local)

FrameSpec == LiveInit /\ [][FrameNext]_vars

\* the event channel has room for the answer to every queued command and for
\* one event more
Room(n) == Len(events[n]) + Len(commands[n]) < MaxEvents

\* both arms of select! kept ready: the application sends every kind of
\* command while connection, identify and logged events about a peer arrive
QueueNext ==
    \/ StartChatNetwork(Local)
    \/ Room(Local) /\ ConnectionStep(Local, {"B"})
    \/ GossipsubSubscribed(Local, "B")
    \/ LoggedStep(Local, {"B"})
    \/ \E cmd \in {SendBroadcastCmd("hi"), SendDirectCmd("B", "hi"),
                    ListPeersCmd, GetPeerListCmd} :
         Room(Local) /\ ClientSend(Local, cmd)
    \/ ClientDrop(Local)
    \/ SendBroadcast(Local)
    \/ SendDirect(Local)
    \/ ListPeers(Local)
    \/ GetPeerList(Local)
    \/ CommandChannelClosed(Local)

\* tokio::select! chooses at random among the arms that are ready: an arm
\* that stays ready is taken in the end
QueueSpec ==
    /\ Init
    /\ [][QueueNext]_vars
    /\ WF_vars(SendBroadcast(Local))
    /\ WF_vars(SendDirect(Local))
    /\ WF_vars(ListPeers(Local))
    /\ WF_vars(GetPeerList(Local))

\* the loops under every error they contain: one node in run_chat_network
\* with failing dials, failing probes, malformed payloads and publishes
\* without subscribers, until the application drops its client; another in
\* P2pNetwork::run with a bootstrap peer that does not answer
LoopInit ==
    /\ bootstrap_nodes =
         [n \in Nodes |-> IF n = "C" THEN <<[addr |-> "a1", p2p |-> "B"]>>
                          ELSE <<>>]
    /\ reachable = {}
    /\ pc = [n \in Nodes |-> IF n = "B" THEN "chat" ELSE "new"]
    /\ subscriptions = [n \in Nodes |->
                          IF n = "B" THEN {ChatTopic, DirectTopic(n)} ELSE {}]
    /\ InitCommon
    /\ Unconnected

LoopErrors ==
    \/ \E p \in {"B", NoPeer} : OutgoingConnectionError(Local, p)
    \/ Ping(Local, "B")
    \/ \E topic \in {ChatTopic, DirectTopic(Local)} :
         GossipsubFromRemote(Local, "B", "B", 0, topic, MalformedPayload)
    \/ KademliaBootstrapErr("C")
    \/ OutgoingConnectionError("C", "B")

LoopNext ==
    \/ StartChatNetwork(Local)
    \/ StartRun("C")
    \/ ConnectionEstablished(Local, "B")
    \/ ConnectionClosed(Local, "B")
    \/ GossipsubSubscribed(Local, "B")
    \/ LoopErrors
    \/ \E cmd \in Commands \ {ListPeersCmd, GetPeerListCmd} :
         ClientSend(Local, cmd)
    \/ ClientDrop(Local)
    \/ SendBroadcast(Local)
    \/ SendDirect(Local)
    \/ CommandChannelClosed(Local)

\* select! keeps polling command_receiver.recv(): a command that is ready, or
\* the channel's end, is taken in the end
LoopSpec ==
    /\ LoopInit
    /\ [][LoopNext]_vars
    /\ WF_vars(SendBroadcast(Local))
    /\ WF_vars(SendDirect(Local))
    /\ WF_vars(CommandChannelClosed(Local))

\* ---------------------------------------------------- properties
IsMessage(n, i) == events[n][i].type = "MessageReceived"

\* the event at position i of a node's channel is about peer p: a
\* PeerDiscovered of p, or a message that arrived from p
AboutPeer(n, i, p) ==
    \/ events[n][i].type = "PeerDiscovered" /\ events[n][i].info.peer_id = p
    \/ IsMessage(n, i) /\ event_cause[n][i].peer = p

CountEvents(n, ev) == Cardinality({i \in DOMAIN events[n] : events[n][i] = ev})

\* C1: on every node, each payload byte string is behind at most one
\* MessageReceived, however many frames carried it there, whoever sent or
\* published them and whenever they arrived
C1_PayloadSurfacedAtMostOnce ==
    \A n \in Nodes : \A i, j \in DOMAIN events[n] :
        (/\ IsMessage(n, i)
         /\ IsMessage(n, j)
         /\ event_cause[n][i].data = event_cause[n][j].data) => i = j

\* C2: every MessageReceived that arrived from peer P comes after a
\* PeerConnected(P) on the same channel
C2_ConnectBeforeMessage ==
    \A n \in Nodes : \A i \in DOMAIN events[n] :
        IsMessage(n, i) =>
            \E j \in 1..(i - 1) :
                events[n][j] = PeerConnected(event_cause[n][i].peer)

C2_Witness == \E i \in DOMAIN events[Local] : IsMessage(Local, i)

\* C3: after PeerDisconnected(P), no event about P (PeerDiscovered(P), a
\* message from P) is emitted before the next PeerConnected(P)
C3_SilentAfterDisconnect ==
    \A n \in Nodes : \A p \in Nodes : \A i, j \in DOMAIN events[n] :
        (/\ i < j
         /\ events[n][i] = PeerDisconnected(p)
         /\ AboutPeer(n, j, p)) =>
            \E k \in (i + 1)..(j - 1) : events[n][k] = PeerConnected(p)

\* C4: the step that handles ConnectionClosed for P, which follows a
\* ConnectionEstablished for P, leaves a registry whose peer list, in every
\* order get_peer_list may return it, does not contain P
C4_ClosedPeerNotListed ==
    [][\A p \in Nodes :
         ConnectionClosed(Local, p) =>
             \A peers \in get_peer_list(Local)' :
                 \A i \in DOMAIN peers : peers[i].peer_id # p]_vars

\* ConnectionEstablished and then ConnectionClosed for one peer were the last
\* two events handled, and the peer is gone from the registry
C4_Witness ==
    \E p \in Nodes :
        /\ Len(events[Local]) >= 2
        /\ events[Local][Len(events[Local]) - 1] = PeerConnected(p)
        /\ events[Local][Len(events[Local])] = PeerDisconnected(p)
        /\ p \notin DOMAIN connected_peers[Local]

\* C5: a node emits no more DhtBootstrapped events than it has made
\* bootstrap attempts, however many progress results an attempt reports
C5_OneDhtBootstrappedPerAttempt ==
    \A n \in Nodes : CountEvents(n, DhtBootstrapped) <= boot[n].calls

\* every peer a bootstrap address names is unreachable
BootstrapUnreachable(n) ==
    \A e \in new_routing(bootstrap_nodes[n]) : e[1] \notin reachable

C7_DirectOnlyAtTarget ==
    \A n \in Nodes : \A i \in DOMAIN events[n] :
        (IsMessage(n, i) /\ events[n][i].message.message_type.tag = "Direct")
            => events[n][i].message.message_type.target_peer_id = n

\* a direct message to B is on B's channel, published while the sender knew C
\* as a subscriber of the broadcast topic, and C's channel holds no message
C7_Witness ==
    /\ \E i \in DOMAIN events["B"] :
         /\ IsMessage("B", i)
         /\ events["B"][i].message.message_type = Direct("B")
    /\ ChatTopic \in peer_topics[Local]["C"]
    /\ \A j \in DOMAIN events["C"] : ~IsMessage("C", j)

\* A's channel holds PeerConnected(B) and a PeerDiscovered carrying B's
\* PeerInfo
BootstrappedFrom ==
    /\ \E i \in DOMAIN events[Local] : events[Local][i] = PeerConnected("B")
    /\ \E i \in DOMAIN events[Local] :
         /\ events[Local][i].type = "PeerDiscovered"
         /\ events[Local][i].info.peer_id = "B"

\* B's channel holds a MessageReceived with the given message
ReceivedAtBootstrap(m) ==
    \E i \in DOMAIN events["B"] : events["B"][i] = MessageReceived(m)

\* the k-th message A constructed, given that A has constructed that many
Constructed(k) == publish_calls[Local][k].message

\* C8 as stated: A gets PeerConnected(B) and PeerDiscovered(B); and a
\* SendBroadcast("hi") that A has yet to handle once both are on its channel
\* leads to a MessageReceived at B with A's name, "hi" and Broadcast
C8_BroadcastReachesBootstrap ==
    /\ <>BootstrappedFrom
    /\ (BootstrappedFrom /\ commands[Local] # <<>>)
         ~> (\E i \in DOMAIN events["B"] :
               /\ IsMessage("B", i)
               /\ events["B"][i].message.sender = Username(Local)
               /\ events["B"][i].message.content = "hi"
               /\ events["B"][i].message.message_type = Broadcast)

\* C8, amended: A gets PeerConnected(B) and PeerDiscovered(B); every message
\* A has published with success, which takes B's subscription to the
\* broadcast topic to be known to A, leads to a MessageReceived at B whose
\* five fields are those A constructed; and B's channel holds no message that
\* A did not construct
C8_PublishedBroadcastReachesBootstrap ==
    /\ <>BootstrappedFrom
    /\ \A k \in 1..MaxMsgs :
         (Len(publish_calls[Local]) >= k /\ publish_calls[Local][k].ok)
             ~> (Len(publish_calls[Local]) >= k
                 /\ ReceivedAtBootstrap(Constructed(k)))
    /\ [](\A i \in DOMAIN events["B"] :
            IsMessage("B", i) =>
                \E k \in DOMAIN publish_calls[Local] :
                    events["B"][i].message = Constructed(k))

\* A has both events about B, and B holds the message A constructed from
\* SendBroadcast("hi")
C8_Witness ==
    /\ BootstrappedFrom
    /\ \E k \in DOMAIN publish_calls[Local] :
         /\ Constructed(k).content = "hi"
         /\ Constructed(k).sender = Username(Local)
         /\ Constructed(k).message_type = Broadcast
         /\ ReceivedAtBootstrap(Constructed(k))

\* the publish_message call a command handler has just made
LastPublish == publish_calls'[Local][Len(publish_calls'[Local])]

\* the handler made one publish call and no other, and every frame it put on
\* the wire carries that call's topic and payload
PublishedOnce ==
    /\ Len(publish_calls'[Local]) = Len(publish_calls[Local]) + 1
    /\ SubSeq(publish_calls'[Local], 1, Len(publish_calls[Local]))
         = publish_calls[Local]
    /\ \A n \in Nodes \ {Local} : publish_calls'[n] = publish_calls[n]
    /\ LastPublish.data = serialize(LastPublish.message)
    /\ \A f \in net' \ net :
         /\ f.message.topic = LastPublish.topic
         /\ f.message.data = LastPublish.data

\* C9: handling SendBroadcast(text) publishes once, on the broadcast topic, a
\* message of type Broadcast with that text; handling SendDirect{P, text}
\* publishes once, on P's direct topic, a message of type Direct{P} with that
\* text; neither publishes on any other topic
C9_TopicFixedByCommand ==
    [][/\ SendBroadcast(Local) =>
            /\ PublishedOnce
            /\ LastPublish.topic = ChatTopic
            /\ LastPublish.message.message_type = Broadcast
            /\ LastPublish.message.content = Head(commands[Local]).message
       /\ SendDirect(Local) =>
            /\ PublishedOnce
            /\ LastPublish.topic = DirectTopic(Head(commands[Local]).peer_id)
            /\ LastPublish.message.message_type
                 = Direct(Head(commands[Local]).peer_id)
            /\ LastPublish.message.content = Head(commands[Local]).message]_vars

\* both kinds of command have been handled, each with a successful publish
C9_Witness ==
    /\ \E k \in DOMAIN publish_calls[Local] :
         publish_calls[Local][k].ok /\ publish_calls[Local][k].topic = ChatTopic
    /\ \E k \in DOMAIN publish_calls[Local] :
         /\ publish_calls[Local][k].ok
         /\ publish_calls[Local][k].topic = DirectTopic("B")

\* C10: the step that handles ListPeers appends exactly one event, a
\* PeerListUpdated that holds every PeerInfo of the registry once and nothing
\* else, and leaves the registry as it was
C10_ListPeersSnapshot ==
    [][ListPeers(Local) =>
         LET registry == connected_peers[Local]
             sent == events'[Local]
             peers == sent[Len(sent)].peers
         IN  /\ connected_peers' = connected_peers
             /\ Len(sent) = Len(events[Local]) + 1
             /\ SubSeq(sent, 1, Len(events[Local])) = events[Local]
             /\ sent[Len(sent)] = PeerListUpdated(peers)
             /\ Len(peers) = Cardinality(DOMAIN registry)
             /\ \A q \in DOMAIN registry :
                  \E i \in DOMAIN peers : peers[i] = registry[q]]_vars

\* a PeerListUpdated with two peers, one of them identified, is on the channel
C10_Witness ==
    \E i \in DOMAIN events[Local] :
        /\ events[Local][i].type = "PeerListUpdated"
        /\ Len(events[Local][i].peers) = 2
        /\ \E k \in 1..2 : events[Local][i].peers[k].addresses # <<>>

\* C11: the loop of run_chat_network is left only by the step that finds the
\* command channel closed and drained, the loop of P2pNetwork::run is never
\* left, and a closed command channel leads to the end of the loop
C11_LoopEndsIffChannelCloses ==
    /\ [][\A n \in Nodes :
            /\ (pc[n] = "chat" /\ pc'[n] # "chat") =>
                   /\ pc'[n] = "done"
                   /\ ~chan_open[n]
                   /\ commands[n] = <<>>
            /\ pc[n] = "run" => pc'[n] = "run"]_vars
    /\ (pc[Local] = "chat" /\ ~chan_open[Local]) ~> (pc[Local] = "done")

\* the loop has ended after a publish that failed and a malformed payload
\* that arrived, and the other loop is running after its bootstrap failed
C11_Witness ==
    /\ pc[Local] = "done"
    /\ \E k \in DOMAIN publish_calls[Local] : ~publish_calls[Local][k].ok
    /\ Arrived(Local, message_id_fn(GossipMessage("B", 0, ChatTopic,
                                                  MalformedPayload))) > 0
    /\ pc["C"] = "run"
    /\ boot["C"].failed_at >= 0

\* C12: the step whose publish fails makes that one publish call and takes
\* the command off the queue, sends no event, puts no frame on the wire and
\* leaves the registry and the loop as they were; and the message of a
\* failed publish is never in flight nor in a MessageReceived of any node
C12_FailedPublishContained ==
    /\ [][((SendBroadcast(Local) \/ SendDirect(Local)) /\ ~LastPublish.ok) =>
            /\ Len(publish_calls'[Local]) = Len(publish_calls[Local]) + 1
            /\ commands'[Local] = Tail(commands[Local])
            /\ UNCHANGED <<events, connected_peers, net, pc>>]_vars
    /\ [](\A k \in DOMAIN publish_calls[Local] :
            ~publish_calls[Local][k].ok =>
                /\ \A f \in net :
                     f.message.data # publish_calls[Local][k].data
                /\ \A n \in Nodes : \A i \in DOMAIN events[n] :
                     IsMessage(n, i) =>
                         events[n][i].message # Constructed(k))

\* a publish failed for want of a known subscriber although both peers are
\* connected, and the next command was handled and published
C12_Witness ==
    \E k, j \in DOMAIN publish_calls[Local] :
        /\ k < j
        /\ ~publish_calls[Local][k].ok
        /\ publish_calls[Local][j].ok

\* C13: the step that handles a gossip message whose payload is no
\* ChatMessage sends no event, leaves the registry as it was and stays in
\* the loop
C13_MalformedPayloadDropped ==
    [][\A topic \in {ChatTopic, DirectTopic(Local)} :
         GossipsubFromRemote(Local, "B", "B", 0, topic, MalformedPayload) =>
             /\ UNCHANGED <<events, event_cause, connected_peers>>
             /\ pc'[Local] = "chat"]_vars

\* a malformed payload has reached the handler of a node that holds B in its
\* registry, and the loop is running
C13_Witness ==
    /\ Arrived(Local, message_id_fn(GossipMessage("B", 0, ChatTopic,
                                                  MalformedPayload))) > 0
    /\ "B" \in DOMAIN connected_peers[Local]
    /\ pc[Local] = "chat"

\* C14: the step that handles capability information with a protocol version
\* other than the local one leaves the registry as it was and sends no event
C14_IncompatiblePeerRejected ==
    [][\A p \in Nodes, a \in AddrLists :
         \A v \in ProtocolVersions \ {LocalProtocolVersion} :
             IdentifyReceived(Local, p, v, a) =>
                 UNCHANGED <<connected_peers, events>>]_vars

\* C15: the step that handles capability information for a peer that is in
\* the registry leaves an address list that holds every address the peer had
\* before and every address just received, each once
C15_AddressesMerged ==
    [][\A p \in Nodes, v \in ProtocolVersions, a \in AddrLists :
         (IdentifyReceived(Local, p, v, a)
            /\ p \in DOMAIN connected_peers[Local]) =>
             LET old == connected_peers[Local][p].addresses
                 new == connected_peers'[Local][p].addresses
             IN  /\ \A i \in DOMAIN old : \E j \in DOMAIN new : new[j] = old[i]
                 /\ \A i \in DOMAIN a : \E j \in DOMAIN new : new[j] = a[i]
                 /\ \A i, j \in DOMAIN new : new[i] = new[j] => i = j]_vars

\* C16: from one state to the next the last_seen of a peer that stays in the
\* registry does not decrease, and a step that inserts or replaces the
\* peer's entry stores the time of the step
C16_LastSeenMonotone ==
    [][\A p \in Nodes :
         /\ (p \in DOMAIN connected_peers[Local]
               /\ p \in DOMAIN connected_peers'[Local]) =>
                connected_peers'[Local][p].last_seen
                  >= connected_peers[Local][p].last_seen
         /\ (p \in DOMAIN connected_peers'[Local]
               /\ (p \notin DOMAIN connected_peers[Local]
                     \/ \E v \in ProtocolVersions, a \in AddrLists :
                          IdentifyReceived(Local, p, v, a))) =>
                connected_peers'[Local][p].last_seen = now]_vars

\* C17: no node's registry has an entry under the node's own peer id
C17_NoLocalPeerInRegistry ==
    \A n \in Nodes : n \notin DOMAIN connected_peers[n]

\* connection and identify events have filled the registry with both peers
C17_Witness ==
    /\ DOMAIN connected_peers[Local] = Nodes \ {Local}
    /\ \E p \in Nodes \ {Local} : connected_peers[Local][p].addresses # <<>>

\* the events that a step inserting or replacing p's entry sends
Upserts(n, j, p) ==
    \/ events[n][j] = PeerConnected(p)
    \/ events[n][j].type = "PeerDiscovered" /\ events[n][j].info.peer_id = p

\* the positions before i of the events about p since p's last removal
SinceInserted(n, p, i) ==
    {j \in 1..(i - 1) :
        /\ Upserts(n, j, p)
        /\ \A k \in j..(i - 1) : events[n][k] # PeerDisconnected(p)}

\* the position of the event sent by the step that inserted the entry p has
\* when event i is sent
InsertedAt(n, p, i) ==
    CHOOSE j \in SinceInserted(n, p, i) :
        \A k \in SinceInserted(n, p, i) : j <= k

\* C18: every PeerListUpdated lists the peers in the order in which their
\* entries were inserted into the registry
C18_SnapshotInInsertionOrder ==
    \A i \in DOMAIN events[Local] :
        events[Local][i].type = "PeerListUpdated" =>
            LET peers == events[Local][i].peers
            IN  \A a, b \in DOMAIN peers :
                    a < b => InsertedAt(Local, peers[a].peer_id, i)
                               < InsertedAt(Local, peers[b].peer_id, i)

\* C19: once a node is in its loop, every configured bootstrap address is
\* in its routing table
C19_BootstrapAddressesInRouting ==
    \A n \in Nodes :
        Looping(n) =>
            \A i \in DOMAIN bootstrap_nodes[n] :
                \E e \in routing[n] : e[2] = bootstrap_nodes[n][i].addr

\* C20: all the keypairs loaded from one path are the same, and so are their
\* PeerIds; the file is written at most once; a call that finds the file
\* leaves it as it is and writes nothing, returns the keypair the file holds
\* if it decodes and an error if it does not, and on the error the
\* construction of the network fails
C20_KeypairStable ==
    /\ [](\A n \in Nodes :
            /\ key_writes[n] <= 1
            /\ \A i, j \in DOMAIN key_loads[n] :
                 (key_loads[n][i].ok /\ key_loads[n][j].ok) =>
                     /\ key_loads[n][i].keypair = key_loads[n][j].keypair
                     /\ PeerIdFrom(key_loads[n][i].keypair)
                          = PeerIdFrom(key_loads[n][j].keypair))
    /\ [][\A n \in Nodes :
            (pc[n] = "init" /\ pc'[n] # "init" /\ key_file[n].exists) =>
                LET returned == key_loads'[n][Len(key_loads'[n])]
                IN  /\ key_file'[n] = key_file[n]
                    /\ key_writes'[n] = key_writes[n]
                    /\ IF decodes(key_file[n].bytes)
                       THEN /\ returned
                                 = Ok(from_protobuf_encoding(key_file[n].bytes))
                            /\ pc'[n] = "new"
                       ELSE /\ returned = Err
                            /\ pc'[n] = "failed"]_vars

\* one path was loaded twice with the same result after one write, and a
\* construction failed over a file that does not decode
C20_Witness ==
    /\ \E n \in Nodes :
         /\ Len(key_loads[n]) = 2
         /\ key_loads[n][1].ok
         /\ key_loads[n][2].ok
         /\ key_writes[n] = 1
    /\ \E n \in Nodes :
         /\ pc[n] = "failed"
         /\ key_file[n] = File(UndecodableBytes)

\* the k-th message A published went out and a frame carrying it has reached
\* node n, which is subscribed to its topic
DeliveredTo(n, k) ==
    LET call == publish_calls[Local][k]
    IN  /\ call.ok
        /\ call.topic \in subscriptions[n]
        /\ Arrived(n, message_id_fn(GossipMessage(Local, k - 1, call.topic,
                                                  call.data))) > 0

\* two messages with one sender and one content but two ids
SameButId(m1, m2) ==
    /\ m1.id # m2.id
    /\ m1.sender = m2.sender
    /\ m1.content = m2.content

\* the MessageReceived events of node n that carry a sender, a content and
\* one of the given ids
MessagesWith(n, sender, content, ids) ==
    {i \in DOMAIN events[n] :
        /\ IsMessage(n, i)
        /\ events[n][i].message.sender = sender
        /\ events[n][i].message.content = content
        /\ events[n][i].message.id \in ids}

\* C21: no publish is refused for want of a fresh message id while a
\* subscriber of its topic is known, whatever was published before; and when
\* two messages that differ in their id but not in sender and content have
\* both been delivered to a node, the node's channel holds one
\* MessageReceived for each of them, two events for the two in total
C21_DistinctIdsNotDeduplicated ==
    /\ [][((SendBroadcast(Local) \/ SendDirect(Local))
             /\ TopicPeers(Local, LastPublish.topic) # {}) =>
                LastPublish.ok]_vars
    /\ [](\A n \in Nodes \ {Local} : \A k, j \in DOMAIN publish_calls[Local] :
            (/\ SameButId(Constructed(k), Constructed(j))
             /\ DeliveredTo(n, k)
             /\ DeliveredTo(n, j)) =>
                /\ CountEvents(n, MessageReceived(Constructed(k))) = 1
                /\ CountEvents(n, MessageReceived(Constructed(j))) = 1
                /\ Cardinality(MessagesWith(n, Constructed(k).sender,
                                            Constructed(k).content,
                                            {Constructed(k).id,
                                             Constructed(j).id})) = 2)

\* two broadcasts that differ in nothing but their id have both reached B,
\* the second over more than one frame
C21_Witness ==
    /\ Len(publish_calls[Local]) = 2
    /\ SameButId(Constructed(1), Constructed(2))
    /\ Constructed(1).timestamp = Constructed(2).timestamp
    /\ Constructed(1).message_type = Broadcast
    /\ Constructed(2).message_type = Broadcast
    /\ DeliveredTo("B", 1)
    /\ DeliveredTo("B", 2)
    /\ Arrived("B", message_id_fn(GossipMessage(Local, 1, ChatTopic,
                                                publish_calls[Local][2].data)))
         > 1

\* C22: the step that handles capability information from peer P with the
\* local protocol version leaves every received listen address of P in the
\* routing table, stores in the registry a PeerInfo of P with the received
\* addresses and the time of the step, and sends one event and no other: a
\* PeerDiscovered carrying the PeerInfo it stored
C22_IdentifyUpserts ==
    [][\A p \in Nodes, a \in AddrLists :
         IdentifyReceived(Local, p, LocalProtocolVersion, a) =>
             /\ \A i \in DOMAIN a : <<p, a[i]>> \in routing'[Local]
             /\ routing[Local] \subseteq routing'[Local]
             /\ p \in DOMAIN connected_peers'[Local]
             /\ connected_peers'[Local][p] = PeerInfo(p, a, now)
             /\ events'[Local]
                  = Append(events[Local],
                           PeerDiscovered(connected_peers'[Local][p]))]_vars

\* a peer was identified with two addresses: both are in the routing table,
\* the registry holds them, and the PeerDiscovered with them was the last
\* event sent
C22_Witness ==
    \E p \in Nodes :
        /\ {<<p, "a1">>, <<p, "a2">>} \subseteq routing[Local]
        /\ p \in DOMAIN connected_peers[Local]
        /\ connected_peers[Local][p].addresses = <<"a1", "a2">>
        /\ events[Local] # <<>>
        /\ events[Local][Len(events[Local])]
             = PeerDiscovered(connected_peers[Local][p])

\* the handlers of the application's commands
HandlesCommand(n) ==
    SendBroadcast(n) \/ SendDirect(n) \/ ListPeers(n) \/ GetPeerList(n)

\* the handlers of a dial failure, an incoming-connection error, a ping
\* result and a routing-table update
HandlesLogged(n) ==
    \/ \E p \in Nodes \cup {NoPeer} : OutgoingConnectionError(n, p)
    \/ IncomingConnectionError(n)
    \/ \E p \in Nodes : Ping(n, p)
    \/ \E p \in Nodes : KademliaRoutingUpdated(n, p)

\* the handlers of a bootstrap result
HandlesBootstrap(n) ==
    \/ \E last \in BOOLEAN : KademliaBootstrapOk(n, last)
    \/ KademliaBootstrapErr(n)

\* the handlers of connection and identify events
HandlesConnection(n) ==
    \/ \E p \in Nodes : ConnectionEstablished(n, p)
    \/ \E p \in Nodes : ConnectionClosed(n, p)
    \/ \E p \in Nodes, v \in ProtocolVersions, a \in AddrLists :
         IdentifyReceived(n, p, v, a)

\* C23: a step that handles a command, a dial failure, an incoming-connection
\* error, a ping result, a routing-table update or a bootstrap result leaves
\* the registry as it was; of these, the steps that are not command handlers
\* send no event, but for a bootstrap result, which sends nothing or one
\* DhtBootstrapped; and every step that changes the registry handles a
\* connection or identify event
C23_RegistryChangedByTransportOnly ==
    [][/\ (HandlesCommand(Local) \/ HandlesLogged(Local)
             \/ HandlesBootstrap(Local)) =>
                connected_peers' = connected_peers
       /\ HandlesLogged(Local) => events' = events
       /\ HandlesBootstrap(Local) =>
            \/ events' = events
            \/ events'[Local] = Append(events[Local], DhtBootstrapped)
       /\ connected_peers' # connected_peers =>
            HandlesConnection(Local)]_vars

\* with a peer in the registry, a message was published, the peer list was
\* sent, and the registry still holds the peer
C23_Witness ==
    /\ "B" \in DOMAIN connected_peers[Local]
    /\ publish_calls[Local] # <<>>
    /\ \E i \in DOMAIN events[Local] :
         /\ events[Local][i].type = "PeerListUpdated"
         /\ events[Local][i].peers # <<>>

\* with a peer in the registry, a bootstrap query reported a step and then
\* failed, and the registry still holds the peer
C23_BootstrapResultsHandled ==
    /\ "B" \in DOMAIN connected_peers[Local]
    /\ CountEvents(Local, DhtBootstrapped) > 0
    /\ boot[Local].failed_at >= 0

\* the commands node n has handled: each made one publish call or sent one
\* PeerListUpdated
Handled(n) ==
    Len(publish_calls[n])
      + Cardinality({i \in DOMAIN events[n] :
                       events[n][i].type = "PeerListUpdated"})

\* the step does to the world what the command asks for, once
Answers(n, cmd) ==
    LET call == publish_calls'[n][Len(publish_calls'[n])]
    IN  IF IsSendCmd(cmd)
        THEN /\ Len(publish_calls'[n]) = Len(publish_calls[n]) + 1
             /\ call.message.content = cmd.message
             /\ call.message.message_type
                  = IF cmd.type = "SendBroadcast" THEN Broadcast
                    ELSE Direct(cmd.peer_id)
             /\ events'[n] = events[n]
        ELSE /\ publish_calls'[n] = publish_calls[n]
             /\ Len(events'[n]) = Len(events[n]) + 1
             /\ events'[n][Len(events'[n])].type = "PeerListUpdated"

\* C24: the command channel is a queue that the application extends at its
\* end and the loop shortens at its head; the step that takes a command off
\* is the one that handles it, and nothing is handled without a command
\* taken off, so commands are handled in the order sent, each once; and
\* while the loop runs the k-th command sent is handled in the end, whatever
\* transport events arrive
C24_CommandsInOrderOnceEventually ==
    /\ [][LET queue == commands[Local] IN
            /\ commands'[Local] # queue =>
                 \/ \E cmd \in Commands :
                      /\ commands'[Local] = Append(queue, cmd)
                      /\ Handled(Local)' = Handled(Local)
                 \/ /\ queue # <<>>
                    /\ commands'[Local] = Tail(queue)
                    /\ Answers(Local, Head(queue))
            /\ Handled(Local)' # Handled(Local) =>
                 /\ queue # <<>>
                 /\ commands'[Local] = Tail(queue)
                 /\ Handled(Local)' = Handled(Local) + 1]_vars
    /\ \A k \in 1..(MaxMsgs + MaxEvents) :
         (pc[Local] = "chat" /\ Handled(Local) + Len(commands[Local]) >= k)
             ~> (Handled(Local) >= k)

\* a send and a peer-list command waited together in the queue, were both
\* handled in the order sent, after connection events had arrived
C24_Witness ==
    /\ Len(events[Local]) >= 2
    /\ events[Local][1] = PeerConnected("B")
    /\ events[Local][Len(events[Local])].type = "PeerListUpdated"
    /\ Len(publish_calls[Local]) = 2
    /\ publish_calls[Local][1].message.message_type = Direct("B")
    /\ publish_calls[Local][2].message.message_type = Broadcast
    /\ commands[Local] = <<>>
    /\ Handled(Local) = 3

\* C25: in every state of a node in its loop, the peers with an entry in the
\* registry are the peers to which the swarm holds an open connection
C25_RegistryMatchesConnections ==
    \A n \in Nodes : \A p \in Nodes :
        Looping(n) => (conns[n][p] > 0 <=> p \in DOMAIN connected_peers[n])

\* how many of the first k events of node n are the event ev
CountInPrefix(n, k, ev) == Cardinality({i \in 1..k : events[n][i] = ev})

\* C26: the step that handles ConnectionEstablished for P sends one event and
\* no other, PeerConnected(P); it leaves the registry as it was if P has an
\* entry, and otherwise adds an entry for P with no address and changes no
\* other; and no prefix of a node's events holds more PeerDisconnected(P)
\* than PeerConnected(P)
C26_ConnectedOncePerConnection ==
    /\ [][\A p \in Nodes :
            ConnectionEstablished(Local, p) =>
                LET registry == connected_peers[Local] IN
                /\ events'[Local] = Append(events[Local], PeerConnected(p))
                /\ IF p \in DOMAIN registry
                   THEN connected_peers'[Local] = registry
                   ELSE /\ DOMAIN connected_peers'[Local]
                             = DOMAIN registry \cup {p}
                        /\ connected_peers'[Local][p].peer_id = p
                        /\ connected_peers'[Local][p].addresses = <<>>
                        /\ \A q \in DOMAIN registry :
                             connected_peers'[Local][q] = registry[q]]_vars
    /\ [](\A n \in Nodes : \A p \in Nodes : \A k \in 0..Len(events[n]) :
            CountInPrefix(n, k, PeerDisconnected(p))
                <= CountInPrefix(n, k, PeerConnected(p)))

\* a second connection to a peer was established after the peer had been
\* identified with its addresses, and one of the two has closed since
C26_Witness ==
    /\ Len(events[Local]) = 4
    /\ events[Local][1] = PeerConnected("B")
    /\ events[Local][2].type = "PeerDiscovered"
    /\ events[Local][2].info.addresses # <<>>
    /\ events[Local][3] = PeerConnected("B")
    /\ events[Local][4] = PeerDisconnected("B")
    /\ conns[Local]["B"] = 1

====
